---- MODULE Spec2Model ----
(***************************************************************************)
(* kaiso: an object-graph persistence layer over a property graph.         *)
(* The model holds the graph (nodes, edges), the driver's node indexes and *)
(* the storage engine's operations initialize / save / get / delete as     *)
(* they are written in src/kaiso/persistence.py.                           *)
(***************************************************************************)
EXTENDS Integers, Sequences, FiniteSets, TLC

\* ------------------------------------------------------------------ bounds
\* ids the graph driver hands out (nodes and edges share one counter)
MaxId == 15
\* the number of save calls each of the concurrent Storages makes
MaxSaves == 2

\* Python's None
NULL == "<None>"
PyTrue == "True"
PyFalse == "False"

\* ------------------------------------------------------- the type lattice
\* The classes of the running program: Python's object/type, kaiso's
\* meta-types, markers and attribute classes, and the user types of the
\* scenarios.
PyTypes ==
    {"object", "type", "MetaMeta", "Persistable", "PersistableMeta",
     "AttributedBase", "Entity", "TypeSystem", "Relationship",
     "Attribute", "String", "Uuid",
     "P", "Q", "R", "S", "M", "D", "Foobar", "DynEntity", "Knows"}

\* cls.__bases__, in declaration order
bases(c) ==
    CASE c = "object" -> << >>
      [] c = "type" -> <<"object">>
      [] c = "MetaMeta" -> <<"type">>
      [] c = "Persistable" -> <<"object">>
      [] c = "PersistableMeta" -> <<"type", "Persistable">>
      [] c = "AttributedBase" -> <<"Persistable">>
      [] c = "Entity" -> <<"AttributedBase">>
      [] c = "TypeSystem" -> <<"AttributedBase">>
      [] c = "Relationship" -> <<"AttributedBase">>
      [] c = "P" -> <<"Entity">>
      [] c = "Q" -> <<"AttributedBase">>
      [] c = "R" -> <<"Entity">>
      [] c = "S" -> <<"Entity">>
      [] c = "M" -> <<"Q", "S">>
      [] c = "D" -> <<"Entity">>
      [] c = "Foobar" -> <<"Entity">>
      [] c = "DynEntity" -> <<"AttributedBase">>
      [] c = "Attribute" -> <<"Persistable">>
      [] c = "String" -> <<"Attribute">>
      [] c = "Uuid" -> <<"Attribute">>
      [] c = "Knows" -> <<"Relationship">>

\* type(cls) for a class object
metaclass(c) ==
    CASE c \in {"object", "type", "MetaMeta", "Persistable"} -> "type"
      [] c = "PersistableMeta" -> "MetaMeta"
      [] OTHER -> "PersistableMeta"

Range(s) == {s[i] : i \in DOMAIN s}

RECURSIVE ancestors(_)
\* the classes c is a subclass of (issubclass is reflexive)
ancestors(c) == {c} \cup UNION {ancestors(b) : b \in Range(bases(c))}

issubclass(c, d) == d \in ancestors(c)

\* ------------------------------------------------------------ descriptors
\* Descriptor(cls).declared_attributes: the attributes defined directly on cls
declared_attributes(c) ==
    CASE c = "TypeSystem" -> <<"id", "version">>
      [] c = "P" -> <<"id", "code", "name">>
      [] c = "Q" -> <<"id">>
      [] c = "R" -> <<"id">>
      [] c = "S" -> <<"name">>
      [] c = "D" -> <<"note", "token">>
      [] c \in {"Foobar", "DynEntity"} -> <<"id">>
      [] OTHER -> << >>

\* the attribute declared as `name` on class c: its kind, its unique flag
\* and its default
attribute(c, name) ==
    CASE c = "TypeSystem" /\ name = "id" ->
            [kind |-> "String", unique |-> TRUE, default |-> NULL]
      [] c = "TypeSystem" /\ name = "version" ->
            [kind |-> "Uuid", unique |-> FALSE, default |-> NULL]
      [] c = "P" /\ name = "id" ->
            [kind |-> "String", unique |-> TRUE, default |-> NULL]
      [] c = "P" /\ name = "code" ->
            [kind |-> "String", unique |-> TRUE, default |-> NULL]
      [] c = "P" /\ name = "name" ->
            [kind |-> "String", unique |-> FALSE, default |-> NULL]
      [] c = "Q" /\ name = "id" ->
            [kind |-> "String", unique |-> TRUE, default |-> NULL]
      [] c = "R" /\ name = "id" ->
            [kind |-> "String", unique |-> TRUE, default |-> NULL]
      [] c = "S" /\ name = "name" ->
            [kind |-> "String", unique |-> FALSE, default |-> NULL]
      [] c = "D" /\ name = "note" ->
            [kind |-> "String", unique |-> FALSE, default |-> "n"]
      [] c = "D" /\ name = "token" ->
            [kind |-> "Uuid", unique |-> FALSE, default |-> NULL]
      [] c \in {"Foobar", "DynEntity"} /\ name = "id" ->
            [kind |-> "String", unique |-> FALSE, default |-> NULL]

RECURSIVE SeqDedup(_, _)
\* s without the items of `seen` and without repeats, first occurrences kept
SeqDedup(s, seen) ==
    IF s = << >> THEN << >>
    ELSE IF Head(s) \in seen THEN SeqDedup(Tail(s), seen)
    ELSE <<Head(s)>> \o SeqDedup(Tail(s), seen \cup {Head(s)})

RECURSIVE ConcatAll(_)
ConcatAll(ss) == IF ss = << >> THEN << >> ELSE Head(ss) \o ConcatAll(Tail(ss))

RECURSIVE mro(_)
\* the classes attributes are collected from, leaf first
mro(c) == SeqDedup(<<c>> \o ConcatAll([i \in DOMAIN bases(c) |-> mro(bases(c)[i])]), {})

\* the first class of the MRO m that declares `name`
first_declaring(m, name) ==
    m[CHOOSE i \in DOMAIN m :
        /\ name \in Range(declared_attributes(m[i]))
        /\ \A j \in 1..(i - 1) : name \notin Range(declared_attributes(m[j]))]

\* the class on the MRO of c that declares `name` (nearest first)
declared_on(c, name) == first_declaring(mro(c), name)

\* the attribute names declared along the MRO m, each once
declared_along(m) ==
    SeqDedup(ConcatAll([i \in DOMAIN m |-> declared_attributes(m[i])]), {})

\* one effective attribute: its name, kind, unique flag and declaring class
attribute_view(name, on) ==
    [name |-> name, kind |-> attribute(on, name).kind,
     unique |-> attribute(on, name).unique,
     default |-> attribute(on, name).default, declared_on |-> on]

attribute_views(c, names) ==
    [i \in DOMAIN names |-> attribute_view(names[i], declared_on(c, names[i]))]

\* the effective attributes of c along the MRO, nearer classes shadowing
\* further ones
effective_attributes(c) == attribute_views(c, declared_along(mro(c)))

\* the type_id of a class is its __name__: DynEntity is the class a store
\* created under the name Entity
type_id_of(c) == IF c = "DynEntity" THEN "Entity" ELSE c

\* Descriptor(cls): the per-type view, computed once per class and cached
Descriptor ==
    [c \in PyTypes |->
        [type_id |-> type_id_of(c),
         declared_attributes |-> declared_attributes(c),
         attributes |-> effective_attributes(c)]]

\* get_index_name(cls): the type_id of the class
get_index_name(c) == type_id_of(c)

\* a class is indexable when it declares a unique attribute itself
is_indexable(c) ==
    \E a \in Range(declared_attributes(c)) : attribute(c, a).unique

\* ---------------------------------------------------------------- objects
\* Python-side objects: class objects, instances, relationships and one
\* store's TypeSystem object (self.type_system).
ClassObj(c) == [kind |-> "class", cls |-> c]
Instance(c, at) == [kind |-> "inst", cls |-> c, attrs |-> at]
type_system == [kind |-> "root", cls |-> "TypeSystem",
                attrs |-> ("id" :> "TypeSystem") @@ ("version" :> NULL)]
Rel(c, s, e) == [kind |-> "rel", cls |-> c, start |-> s, end |-> e, attrs |-> << >>]
\* object(): an object of a class that is not persistable
PlainObject == [kind |-> "other", cls |-> "object", attrs |-> << >>]
\* an attribute object such as String(unique=True)
AttributeObj(c, unique) == [kind |-> "attr", cls |-> c, attrs |-> ("unique" :> unique)]

\* type(obj), as a class name
type(obj) == IF obj.kind = "class" THEN metaclass(obj.cls) ELSE obj.cls

EmptyDict == << >>

\* uuid.UUID values and their text form
UuidText == ("UUID(u1)" :> "u1") @@ ("UUID(u2)" :> "u2")
UuidOf == ("u1" :> "UUID(u1)") @@ ("u2" :> "UUID(u2)")

\* attr.to_db / attr.to_python: the stored primitive of a String is the
\* text itself, that of a Uuid the text form of the UUID; None stays None
to_db(kind, value) ==
    IF value = NULL THEN NULL
    ELSE IF kind = "Uuid" THEN UuidText[value] ELSE value
to_python(kind, value) ==
    IF value = NULL THEN NULL
    ELSE IF kind = "Uuid" THEN UuidOf[value] ELSE value

\* the attribute of the sequence `at` that is called `a`
attribute_named(at, a) == at[CHOOSE i \in DOMAIN at : at[i].name = a]

\* the property map of the attributes `at` with the values `attrs`: None
\* values are left out
properties_of(at, attrs) ==
    [a \in {at[i].name : i \in {j \in DOMAIN at : to_db(at[j].kind, attrs[at[j].name]) # NULL}}
        |-> to_db(attribute_named(at, a).kind, attrs[a])]

attribute_properties(obj) == properties_of(Descriptor[type(obj)].attributes, obj.attrs)

object_to_dict(obj) ==
    ("__type__" :> Descriptor[type(obj)].type_id)
    @@ (CASE obj.kind = "class" -> ("id" :> Descriptor[obj.cls].type_id)
          [] obj.kind = "attr" -> ("unique" :> obj.attrs["unique"])
          [] OTHER -> attribute_properties(obj))

\* object_to_dict of an attribute spec, with its name injected
attr_dict(c, name) ==
    ("__type__" :> attribute(c, name).kind)
    @@ ("unique" :> IF attribute(c, name).unique THEN PyTrue ELSE PyFalse)
    @@ ("name" :> name)

\* the attribute values read from a property map: an attribute missing from
\* the properties gets the default None
attributes_from(at, properties) ==
    [a \in {at[i].name : i \in DOMAIN at} |->
        IF a \in DOMAIN properties
        THEN to_python(attribute_named(at, a).kind, properties[a])
        ELSE attribute_named(at, a).default]

\* an exception raised instead of a value returned
Raise(err) == [kind |-> "raise", err |-> err]

\* The type registries, type_id -> class: every statically declared
\* persistable class is registered with PersistableMeta; DynamicType, a
\* sub-metaclass made for one store, holds the classes created through it
\* and only those.
UnknownType == "<UnknownType>"
DynamicClasses == {"Foobar", "DynEntity"}
registry(meta) ==
    IF meta = "DynamicType"
    THEN [id \in {type_id_of(c) : c \in DynamicClasses} |->
            CHOOSE c \in DynamicClasses : type_id_of(c) = id]
    ELSE [c \in {d \in PyTypes : issubclass(d, "Persistable")} \ DynamicClasses |-> c]

\* meta.get_class_by_id(cls_id): the class, or UnknownType raised
get_class_by_id(meta, cls_id) ==
    IF cls_id \in DOMAIN registry(meta) THEN registry(meta)[cls_id] ELSE UnknownType

\* the lookup in the order static, then dynamic
static_first(dynamic_type, cls_id) ==
    IF get_class_by_id("PersistableMeta", cls_id) # UnknownType
    THEN get_class_by_id("PersistableMeta", cls_id)
    ELSE get_class_by_id(dynamic_type, cls_id)

\* the class of cls_id: dynamic_type is asked first, PersistableMeta when
\* that raises UnknownType
lookup_class(dynamic_type, cls_id) ==
    IF get_class_by_id(dynamic_type, cls_id) # UnknownType
    THEN get_class_by_id(dynamic_type, cls_id)
    ELSE get_class_by_id("PersistableMeta", cls_id)

\* cls.__new__(cls) with its attributes set from the properties: an Attribute
\* gets every key of the properties, any other object its declared attributes
new_object(cls, properties) ==
    IF issubclass(cls, "Attribute")
    THEN [kind |-> "attr", cls |-> cls, attrs |-> properties]
    ELSE Instance(cls, attributes_from(Descriptor[cls].attributes, properties))

\* dict_to_object once the class is looked up
object_of(properties, type_id, cls_id, cls) ==
    IF cls = UnknownType THEN Raise("UnknownType")
    ELSE IF cls_id # type_id THEN ClassObj(cls)
    ELSE new_object(cls, properties)

class_id(properties) ==
    IF properties["__type__"] = Descriptor["PersistableMeta"].type_id
    THEN properties["id"] ELSE properties["__type__"]

\* dict_to_object(properties, dynamic_type): a class node gives the class
\* object; any other node an object of the class named by __type__
dict_to_object_in(properties, dynamic_type) ==
    IF "__type__" \notin DOMAIN properties THEN Raise("DeserialisationError")
    ELSE object_of(properties, properties["__type__"], class_id(properties),
                   lookup_class(dynamic_type, class_id(properties)))

\* dict_to_object(properties), dynamic_type left at its default
dict_to_object(properties) == dict_to_object_in(properties, "PersistableMeta")

\* the index triples of the unique attributes `uniq` with the values `attrs`
index_triples_of(uniq, attrs) ==
    [i \in DOMAIN uniq |->
        <<get_index_name(uniq[i].declared_on), uniq[i].name,
          to_db(uniq[i].kind, attrs[uniq[i].name])>>]

unique_attributes(at) == SelectSeq(at, LAMBDA a : a.unique)

\* get_indexes(obj): the (index_name, key, value) triples of obj, in order
get_indexes(obj) ==
    IF obj.kind = "class"
    THEN << <<get_index_name(type(obj)), "id", obj.cls>> >>
    ELSE index_triples_of(unique_attributes(Descriptor[type(obj)].attributes), obj.attrs)

\* {key: value for _, key, value in ix}: a later triple replaces an earlier one
filter_of(ix) ==
    [k \in {ix[i][2] : i \in DOMAIN ix} |->
        ix[CHOOSE i \in DOMAIN ix : ix[i][2] = k /\ \A j \in DOMAIN ix : ix[j][2] = k => j <= i][3]]

\* get_index_filter(obj)
get_index_filter(obj) == filter_of(get_indexes(obj))

\* the changed values alone, the keys that disappeared left out
changed_values(old, new) ==
    [k \in {k \in DOMAIN new : (IF k \in DOMAIN old THEN old[k] ELSE NULL) # new[k]} |->
        new[k]]

\* _get_changes(old, new)
get_changes(old, new) ==
    [k \in {k \in DOMAIN new : (IF k \in DOMAIN old THEN old[k] ELSE NULL) # new[k]}
           \cup (DOMAIN old \ DOMAIN new) |->
        IF k \in DOMAIN new THEN new[k] ELSE NULL]

\* ----------------------------------------------- the type-relationship stream
RECURSIVE raw_type_relationships(_)
\* the triples as the generator yields them when nothing filters repeats
raw_type_relationships(c) ==
    LET meta == IF metaclass(c) # "type"
                THEN raw_type_relationships(metaclass(c)) ELSE << >>
        perBase == [i \in DOMAIN bases(c) |->
                      raw_type_relationships(bases(c)[i]) \o << <<c, "IsA", bases(c)[i]>> >>]
    IN meta \o ConcatAll(perBase) \o << <<c, "InstanceOf", metaclass(c)>> >>

RECURSIVE get_type_relationships(_)
\* get_type_relationships of a class object: triples <<src, rel, dst>>
get_type_relationships(c) ==
    LET meta == IF metaclass(c) # "type"
                THEN get_type_relationships(metaclass(c)) ELSE << >>
        perBase == [i \in DOMAIN bases(c) |->
                      get_type_relationships(bases(c)[i]) \o << <<c, "IsA", bases(c)[i]>> >>]
    IN SeqDedup(meta \o ConcatAll(perBase) \o << <<c, "InstanceOf", metaclass(c)>> >>, {})

\* get_type_relationships of any object: an instance stands in its one
\* triple as "<obj>"
type_relationships_of(obj) ==
    IF obj.kind = "class" THEN get_type_relationships(obj.cls)
    ELSE SeqDedup(get_type_relationships(type(obj))
                  \o << <<"<obj>", "InstanceOf", type(obj)>> >>, {})

\* object_to_dict(IsA(None, None)) and the like: the well-known relationship
\* classes declare no attributes
rel_props(rel) == ("__type__" :> rel)

\* str.upper() of a relationship class name: the edge type used in queries
upper(rel) ==
    CASE rel = "IsA" -> "ISA"
      [] rel = "InstanceOf" -> "INSTANCEOF"
      [] rel = "DeclaredOn" -> "DECLAREDON"
      [] rel = "Defines" -> "DEFINES"
      [] rel = "Knows" -> "KNOWS"
      [] rel = "Relationship" -> "RELATIONSHIP"

\* ------------------------------------------------------- the query builder
\* One pattern node of a CREATE UNIQUE line: an identifier and the property
\* map written with it (EmptyDict when the line only names the identifier).
PNode(name, props) == [name |-> name, props |-> props]
Line(src, typ, rprops, dst) == [src |-> src, typ |-> typ, rprops |-> rprops, dst |-> dst]

Contains(s, x) == \E i \in DOMAIN s : s[i] = x
AppendNew(s, x) == IF Contains(s, x) THEN s ELSE Append(s, x)

\* the DECLAREDON lines of cls1's declared attributes
attribute_lines(name1) ==
    [i \in DOMAIN declared_attributes(name1) |->
        Line(PNode(name1 \o "_" \o declared_attributes(name1)[i],
                   attr_dict(name1, declared_attributes(name1)[i])),
             "DECLAREDON", rel_props("DeclaredOn"), PNode(name1, EmptyDict))]

\* the loop body of get_create_types_query for one triple of the stream
create_types_step(st, triple) ==
    LET cls1 == triple[1]
        rel_cls == triple[2]
        cls2 == triple[3]
        abstr1 == IF Contains(st.objects, cls1)
                  THEN PNode(cls1, EmptyDict)
                  ELSE PNode(cls1, object_to_dict(ClassObj(cls1)))
        objects1 == AppendNew(st.objects, cls1)
        ln == IF st.is_first
              THEN Line(PNode("root", EmptyDict), "DEFINES", rel_props("Defines"), abstr1)
              ELSE Line(abstr1, upper(rel_cls), rel_props(rel_cls), PNode(cls2, EmptyDict))
        objects2 == IF st.is_first THEN objects1 ELSE AppendNew(objects1, cls2)
    IN IF issubclass(cls2, "AttributedBase")
       THEN [lines |-> st.lines \o <<ln>> \o attribute_lines(cls1),
             objects |-> objects2, is_first |-> FALSE]
       ELSE st

RECURSIVE create_types_fold(_, _)
create_types_fold(st, stream) ==
    IF stream = << >> THEN st
    ELSE create_types_fold(create_types_step(st, Head(stream)), Tail(stream))

\* the clause of the query as it would be without UNIQUE
plain_create == "CREATE"

\* the clause the lines of the query are written under
create_clause == "CREATE UNIQUE"

query_of(st) == [clause |-> create_clause, lines |-> st.lines, objects |-> st.objects]

\* get_create_types_query(cls, root): the clause, its lines and the objects of
\* the RETURN list
get_create_types_query(c) ==
    query_of(create_types_fold([lines |-> << >>, objects |-> << >>, is_first |-> TRUE],
                               get_type_relationships(c)))

\* the classes whose hierarchy the engine creates: the query of each is built
\* once
StoredClasses == {c \in PyTypes : issubclass(c, "AttributedBase") /\ c # "AttributedBase"}
CreateTypesQuery == [c \in PyTypes |-> get_create_types_query(c)]

\* --------------------------------------------------------- the graph driver
\* The database as one value: nodes [id, props], edges [id, src, typ, props,
\* dst], the node-index entries <<index_name, key, value, node id>>, the names
\* of the node indexes that exist and the next id the driver hands out.
EmptyDb == [nodes |-> {}, edges |-> {}, nidx |-> {}, indexes |-> {}, nextId |-> 1]

NodeIds(db) == {n.id : n \in db.nodes}
NodeOf(db, id) == CHOOSE n \in db.nodes : n.id = id

\* a stored property map carries every key of `want` with the same value
PropsMatch(p, want) == \A k \in DOMAIN want : k \in DOMAIN p /\ p[k] = want[k]

Min(S) == CHOOSE x \in S : \A y \in S : x <= y

RECURSIVE SortedSeq(_)
SortedSeq(S) == IF S = {} THEN << >> ELSE <<Min(S)>> \o SortedSeq(S \ {Min(S)})

get_or_create_index(db, name) == [db EXCEPT !.indexes = @ \cup {name}]

\* index.add(key, value, node)
index_add(db, name, key, value, id) ==
    [db EXCEPT !.nidx = @ \cup {<<name, key, value, id>>}]

\* START x=node:name(key="value"): the indexed nodes that still exist
index_hits(db, name, key, value) ==
    {t[4] : t \in {u \in db.nidx : u[1] = name /\ u[2] = key /\ u[3] = value}}
        \cap NodeIds(db)

create_node(db, props) ==
    [db EXCEPT !.nodes = @ \cup {[id |-> db.nextId, props |-> props]},
               !.nextId = @ + 1]

create_edge(db, src, typ, props, dst) ==
    [db EXCEPT !.edges = @ \cup {[id |-> db.nextId, src |-> src, typ |-> typ,
                                  props |-> props, dst |-> dst]},
               !.nextId = @ + 1]

\* one line src -[:typ rprops]-> dst under the bindings env.  CREATE UNIQUE
\* binds what matches and creates what is missing; CREATE creates every
\* unbound node and the relationship
exec_line(db, env, ln, clause) ==
    LET s == ln.src.name
        d == ln.dst.name
        edgeOK(e) == /\ clause = "CREATE UNIQUE"
                     /\ e.typ = ln.typ
                     /\ PropsMatch(e.props, ln.rprops)
        nodeOK(id, want) == PropsMatch(NodeOf(db, id).props, want)
    IN CASE s \in DOMAIN env /\ d \in DOMAIN env ->
              IF \E e \in db.edges : edgeOK(e) /\ e.src = env[s] /\ e.dst = env[d]
              THEN [db |-> db, env |-> env]
              ELSE [db |-> create_edge(db, env[s], ln.typ, ln.rprops, env[d]),
                    env |-> env]
         [] s \in DOMAIN env /\ d \notin DOMAIN env ->
              LET cands == {e.dst : e \in {f \in db.edges :
                               edgeOK(f) /\ f.src = env[s] /\ nodeOK(f.dst, ln.dst.props)}}
              IN IF cands # {}
                 THEN [db |-> db, env |-> env @@ (d :> Min(cands))]
                 ELSE [db |-> create_edge(create_node(db, ln.dst.props),
                                          env[s], ln.typ, ln.rprops, db.nextId),
                       env |-> env @@ (d :> db.nextId)]
         [] s \notin DOMAIN env /\ d \in DOMAIN env ->
              LET cands == {e.src : e \in {f \in db.edges :
                               edgeOK(f) /\ f.dst = env[d] /\ nodeOK(f.src, ln.src.props)}}
              IN IF cands # {}
                 THEN [db |-> db, env |-> env @@ (s :> Min(cands))]
                 ELSE [db |-> create_edge(create_node(db, ln.src.props),
                                          db.nextId, ln.typ, ln.rprops, env[d]),
                       env |-> env @@ (s :> db.nextId)]
         [] OTHER ->
              LET db1 == create_node(db, ln.src.props)
                  db2 == create_node(db1, ln.dst.props)
              IN [db |-> create_edge(db2, db.nextId, ln.typ, ln.rprops, db1.nextId),
                  env |-> env @@ (s :> db.nextId) @@ (d :> db1.nextId)]

RECURSIVE exec_lines(_, _, _, _)
\* the lines that follow one executed line, under its bindings
exec_rest(r, lines, clause) == exec_lines(r.db, r.env, lines, clause)

\* the line the driver resolves next: the first one with a bound end, the
\* lines whose two ends are both unbound waiting for a later binding
next_line(env, lines) ==
    IF \E i \in DOMAIN lines :
          lines[i].src.name \in DOMAIN env \/ lines[i].dst.name \in DOMAIN env
    THEN Min({i \in DOMAIN lines :
                lines[i].src.name \in DOMAIN env \/ lines[i].dst.name \in DOMAIN env})
    ELSE 1

without(lines, i) == SubSeq(lines, 1, i - 1) \o SubSeq(lines, i + 1, Len(lines))

exec_next(db, env, lines, clause, i) ==
    exec_rest(exec_line(db, env, lines[i], clause), without(lines, i), clause)

\* the lines of one clause: each is resolved once one of its ends is bound
exec_lines(db, env, lines, clause) ==
    IF lines = << >> THEN [db |-> db, env |-> env]
    ELSE exec_next(db, env, lines, clause, next_line(env, lines))

\* a result row put in front of the rows of the remaining START hits
with_row(row, rest) == [db |-> rest.db, rows |-> <<row>> \o rest.rows]

RECURSIVE exec_create_types(_, _, _)
create_types_rows(r, roots, query) == with_row(r.env, exec_create_types(r.db, roots, query))

\* START root=node:TypeSystem(id={root_id}) <clause> lines RETURN objects:
\* one row of bindings per root the index lookup finds
exec_create_types(db, roots, query) ==
    IF roots = << >> THEN [db |-> db, rows |-> << >>]
    ELSE create_types_rows(exec_lines(db, ("root" :> Head(roots)), query.lines, query.clause),
                           Tail(roots), query)

RECURSIVE exec_create_instances(_, _, _, _)
\* START cls=... CREATE (n {props}) -[:INSTANCEOF {rel_props}]-> cls RETURN n
exec_create_instances(db, clss, props, rprops) ==
    IF clss = << >> THEN [db |-> db, rows |-> << >>]
    ELSE with_row(db.nextId,
                  exec_create_instances(
                      create_edge(create_node(db, props), db.nextId,
                                  "INSTANCEOF", rprops, Head(clss)),
                      Tail(clss), props, rprops))

RECURSIVE exec_create_relationships(_, _, _, _)
\* START n1=..., n2=... CREATE n1 -[r:TYPE {props}]-> n2 RETURN r, one row per
\* pair <<n1, n2>>
exec_create_relationships(db, pairs, typ, props) ==
    IF pairs = << >> THEN [db |-> db, rows |-> << >>]
    ELSE with_row(db.nextId,
                  exec_create_relationships(
                      create_edge(db, Head(pairs)[1], typ, props, Head(pairs)[2]),
                      Tail(pairs), typ, props))

RECURSIVE isa_closure(_, _)
\* the nodes reached from `seen` over ISA edges
isa_closure(db, seen) ==
    LET more == {e.dst : e \in {f \in db.edges : f.typ = "ISA" /\ f.src \in seen}} \ seen
    IN IF more = {} THEN seen ELSE isa_closure(db, seen \cup more)

\* the nodes t -[:ISA*]-> reaches: one ISA edge or more
isa_star(db, t) ==
    LET first == {e.dst : e \in {f \in db.edges : f.typ = "ISA" /\ f.src = t}}
    IN IF first = {} THEN {} ELSE isa_closure(db, first)

\* n.key? = value: true when the node has no such property
nullable_eq(props, key, value) == key \notin DOMAIN props \/ props[key] = value

\* MATCH n -[:INSTANCEOF]-> () -[:ISA*]-> () <-[:DEFINES]- root WHERE ... RETURN n
match_instances(db, roots, index_filter) ==
    {n.id : n \in {m \in db.nodes :
        /\ \E k \in DOMAIN index_filter : nullable_eq(m.props, k, index_filter[k])
        /\ \E i \in {e \in db.edges : e.typ = "INSTANCEOF" /\ e.src = m.id} :
             \E top \in isa_star(db, i.dst) :
               \E de \in db.edges :
                  de.typ = "DEFINES" /\ de.dst = top /\ de.src \in roots}}

\* SET n.k = v for every key of changes; None removes the property
set_properties(props, changes) ==
    [k \in (DOMAIN props \ {c \in DOMAIN changes : changes[c] = NULL})
           \cup {c \in DOMAIN changes : changes[c] # NULL} |->
        IF k \in DOMAIN changes THEN changes[k] ELSE props[k]]

\* DELETE of nodes and edges
delete_from(db, nodeIds, edgeIds) ==
    [db EXCEPT !.nodes = {n \in @ : n.id \notin nodeIds},
               !.edges = {e \in @ : e.id \notin edgeIds}]

incident(db, id) == {e \in db.edges : e.src = id \/ e.dst = id}

\* ------------------------------------------------------- the storage engine
\* What an operation leaves behind: the database, how it ended ("ok" or the
\* exception raised), the value returned, the driver calls made in order and
\* the keys of the SET clause when an update query was sent.
None == [kind |-> "None"]
Res(db, err, ret, log) == [db |-> db, err |-> err, ret |-> ret, log |-> log, set |-> {}]

\* a check that lets every object through
can_add_any(obj) == TRUE

\* can_add(obj): isinstance(obj, Persistable)
can_add(obj) == issubclass(type(obj), "Persistable")

RECURSIVE index_triples(_, _, _)
\* _index_object: every index of obj is fetched or created and the node added
index_triples(db, ix, id) ==
    IF ix = << >> THEN db
    ELSE index_triples(
            index_add(get_or_create_index(db, Head(ix)[1]),
                      Head(ix)[1], Head(ix)[2], Head(ix)[3], id),
            Tail(ix), id)

index_object(db, obj, id) == index_triples(db, get_indexes(obj), id)

\* _add_types, first part: the CREATE UNIQUE query is run
add_types_query(db, c) ==
    exec_create_types(
        db, SortedSeq(index_hits(db, get_index_name("TypeSystem"), "id", type_system.attrs["id"])),
        CreateTypesQuery[c])

\* _add_types without its second part: no index is made
no_indexes(db, objects) == db

RECURSIVE add_types_indexes(_, _)
\* _add_types, second part: the index of every indexable object is created
add_types_indexes(db, objects) ==
    IF objects = << >> THEN db
    ELSE add_types_indexes(
            IF is_indexable(Head(objects))
            THEN get_or_create_index(db, get_index_name(Head(objects))) ELSE db,
            Tail(objects))

RECURSIVE add_types_index_objects(_, _, _)
\* _add_types, third part: every returned node is indexed
add_types_index_objects(db, objects, row) ==
    IF objects = << >> THEN db
    ELSE add_types_index_objects(
            index_object(db, ClassObj(Head(objects)), row[Head(objects)]),
            Tail(objects), row)

\* _add_types after its query: StopIteration when the query returned no
\* row, else the first row is indexed
add_types_indexed(r, c, objects) ==
    IF r.rows = << >>
    THEN Res(r.db, "StopIteration", None, <<"create_types">>)
    ELSE Res(add_types_index_objects(add_types_indexes(r.db, objects), objects, r.rows[1]),
             "ok", ClassObj(c), <<"create_types">>)

\* Storage._add_types
add_types(db, c) ==
    IF get_index_name("TypeSystem") \notin db.indexes \/ CreateTypesQuery[c].lines = << >>
    THEN Res(db, "DriverError", None, <<"create_types">>)
    ELSE add_types_indexed(add_types_query(db, c), c, CreateTypesQuery[c].objects)

\* get_start_clause(obj, name): the first index of obj, or nothing
has_start_clause(obj) == get_indexes(obj) # << >>
hits_of(db, triple) == index_hits(db, triple[1], triple[2], triple[3])
start_hits(db, obj) == hits_of(db, get_indexes(obj)[1])
start_index_exists(db, obj) == get_indexes(obj)[1][1] \in db.indexes

\* the end of an insert query: StopIteration when it returned no row
inserted(r, obj, call) ==
    IF r.rows = << >>
    THEN Res(r.db, "StopIteration", None, <<call>>)
    ELSE Res(index_object(r.db, obj, r.rows[1]), "ok", obj, <<call>>)

\* the class nodes START cls=node:<metaclass index>(id=<type>) finds
class_hits(db, cls) == SortedSeq(index_hits(db, get_index_name(metaclass(cls)), "id", cls))

\* the insert of an instance once its type hierarchy is there
add_instance(db, obj) ==
    inserted(exec_create_instances(db, class_hits(db, type(obj)), object_to_dict(obj),
                                   rel_props("InstanceOf")),
             obj, "create_instance")

\* the pairs of the two START lookups of a relationship query
pairs_of(n1, n2) == ConcatAll([i \in DOMAIN n1 |-> [j \in DOMAIN n2 |-> <<n1[i], n2[j]>>]])

\* the insert of a relationship once its type hierarchy is there
add_relationship(db, obj) ==
    IF ~has_start_clause(obj.start) \/ ~has_start_clause(obj.end)
    THEN Res(db, "TypeError", None, << >>)
    ELSE IF ~start_index_exists(db, obj.start) \/ ~start_index_exists(db, obj.end)
    THEN Res(db, "DriverError", None, <<"create_relationship">>)
    ELSE inserted(exec_create_relationships(
                      db, pairs_of(SortedSeq(start_hits(db, obj.start)),
                                   SortedSeq(start_hits(db, obj.end))),
                      upper(object_to_dict(obj)["__type__"]), object_to_dict(obj)),
                  obj, "create_relationship")

\* a call's driver calls put after those of the call before it
after(log, r) == [r EXCEPT !.log = log \o @]

\* _add of an instance or relationship after _add_types(type(obj))
add_typed(t, obj) ==
    IF t.err # "ok" THEN t
    ELSE after(t.log, IF obj.kind = "rel" THEN add_relationship(t.db, obj)
                      ELSE add_instance(t.db, obj))

\* Storage._add
add(db, obj) ==
    CASE obj.kind = "class" -> add_types(db, obj.cls)
      [] obj.kind = "root" ->
            Res(index_object(create_node(db, object_to_dict(obj)), obj, db.nextId),
                "ok", obj, <<"create_root">>)
      [] OTHER -> add_typed(add_types(db, type(obj)), obj)

\* the first item of the filter
first_key(index_filter) == CHOOSE k \in DOMAIN index_filter : TRUE

\* the rows of get's lookup query: the ids of the nodes it returns
lookup_rows(db, cls, index_filter) ==
    IF issubclass(cls, "Relationship") THEN {}
    ELSE IF issubclass(cls, "PersistableMeta")
    THEN index_hits(db, get_index_name(cls), first_key(index_filter),
                    index_filter[first_key(index_filter)])
    ELSE match_instances(
            db, index_hits(db, get_index_name("TypeSystem"), "id", type_system.attrs["id"]),
            index_filter)

\* the driver calls of a lookup
lookup_log(cls) ==
    IF issubclass(cls, "Relationship") \/ issubclass(cls, "PersistableMeta")
    THEN <<"get_or_create_index", "lookup">>
    ELSE <<"lookup">>

\* the database after the lookup: looking up a class creates the index of its
\* metaclass when missing
lookup_db(db, cls) ==
    IF issubclass(cls, "PersistableMeta") /\ ~issubclass(cls, "Relationship")
    THEN get_or_create_index(db, get_index_name(cls))
    ELSE db

\* the instance lookup starts at the TypeSystem index, which has to exist
lookup_fails(db, cls) ==
    /\ ~issubclass(cls, "Relationship")
    /\ ~issubclass(cls, "PersistableMeta")
    /\ get_index_name("TypeSystem") \notin db.indexes

\* the end of get as it would be without the check that all rows are one node
first_of_any(db, found, log) ==
    IF found = {} THEN Res(db, "ok", None, log)
    ELSE Res(db, "ok", dict_to_object(NodeOf(db, Min(found)).props), log)

\* get, lines 565-579: no row gives None, rows of two distinct nodes raise,
\* else the first row is converted
first_of_one(db, found, log) ==
    IF found = {} THEN Res(db, "ok", None, log)
    ELSE IF Cardinality(found) > 1 THEN Res(db, "UniqueConstraintError", None, log)
    ELSE Res(db, "ok", dict_to_object(NodeOf(db, Min(found)).props), log)

\* Storage.get
get(db, cls, index_filter) ==
    IF DOMAIN index_filter = {} THEN Res(db, "ok", None, << >>)
    ELSE IF lookup_fails(db, cls) THEN Res(db, "DriverError", None, lookup_log(cls))
    ELSE first_of_one(lookup_db(db, cls), lookup_rows(lookup_db(db, cls), cls, index_filter),
                      lookup_log(cls))

\* SET on the nodes the START clause of existing finds
updated(db, hits, existing, changes) ==
    [Res([db EXCEPT !.nodes = {IF n.id \in hits
                               THEN [n EXCEPT !.props = set_properties(@, changes)]
                               ELSE n : n \in @}],
         IF hits = {} THEN "StopIteration" ELSE "ok", existing, <<"update">>)
        EXCEPT !.set = DOMAIN changes]

\* the update query of save: START n=<index lookup of existing> SET ... RETURN n
update(db, existing, changes) ==
    IF ~has_start_clause(existing) THEN Res(db, "TypeError", None, << >>)
    ELSE IF ~start_index_exists(db, existing)
    THEN [Res(db, "DriverError", None, <<"update">>) EXCEPT !.set = DOMAIN changes]
    ELSE updated(db, start_hits(db, existing), existing, changes)

\* save, lines 498-522, without the comparison of the two dicts: every
\* re-save sends an update of all properties
changed_always(db, existing, existing_props, props, ix) ==
    IF \E i \in DOMAIN ix : ix[i][2] \in DOMAIN get_changes(existing_props, props)
    THEN Res(db, "NotImplementedError", None, << >>)
    ELSE update(db, existing, props)

\* save, lines 498-522, without the refusal of a changed unique attribute
changed_unchecked(db, existing, existing_props, props, ix) ==
    IF existing_props = props THEN Res(db, "ok", existing, << >>)
    ELSE update(db, existing, get_changes(existing_props, props))

\* save, lines 498-522: no-op, refusal or update
changed(db, existing, existing_props, props, ix) ==
    IF existing_props = props THEN Res(db, "ok", existing, << >>)
    ELSE IF \E i \in DOMAIN ix : ix[i][2] \in DOMAIN get_changes(existing_props, props)
    THEN Res(db, "NotImplementedError", None, << >>)
    ELSE update(db, existing, get_changes(existing_props, props))

\* Storage.save after its lookup returned `existing`
save_existing(db, existing, persistable) ==
    changed(db, existing, object_to_dict(existing), object_to_dict(persistable),
            get_indexes(existing))

\* Storage.save after its lookup: insert, no-op or update
save_after_get(g, persistable) ==
    IF g.err # "ok" THEN g
    ELSE after(g.log, IF g.ret = None THEN add(g.db, persistable)
                      ELSE save_existing(g.db, g.ret, persistable))

\* Storage.save
save(db, persistable) ==
    IF ~can_add(persistable) THEN Res(db, "TypeError", None, << >>)
    ELSE save_after_get(get(db, type(persistable), get_index_filter(persistable)),
                        persistable)

\* Storage.initialize
initialize(db) ==
    after(<<"get_or_create_index">>,
          save(get_or_create_index(db, get_index_name("TypeSystem")), type_system))

\* DELETE of the relationships between the nodes of two START lookups
delete_relationships(db, n1, n2) ==
    Res(delete_from(db, {}, {e.id : e \in {f \in db.edges : f.src \in n1 /\ f.dst \in n2}}),
        "ok", None, <<"delete">>)

\* the delete as it would be with the entries of the deleted nodes taken out
\* of the indexes
delete_entries(db, objs, more) ==
    Res([delete_from(db, objs \cup more, {e.id : e \in UNION {incident(db, o) : o \in objs}})
            EXCEPT !.nidx = {t \in @ : t[4] \notin objs \cup more}],
        "ok", None, <<"delete">>)

\* DELETE of nodes with every relationship they have
delete_nodes(db, objs, more) ==
    Res(delete_from(db, objs \cup more, {e.id : e \in UNION {incident(db, o) : o \in objs}}),
        "ok", None, <<"delete">>)

\* the nodes of a class delete: a class comes back once per attribute declared
\* on it, together with that attribute
declaring(db, hits) ==
    {o \in hits : \E e \in db.edges : e.typ = "DECLAREDON" /\ e.dst = o}
declared(db, objs) ==
    {e.src : e \in {f \in db.edges : f.typ = "DECLAREDON" /\ f.dst \in objs}}
delete_class(db, objs) == delete_nodes(db, objs, declared(db, objs))

\* the nodes of an instance delete: a node comes back once per relationship
related(db, hits) == {o \in hits : incident(db, o) # {}}

\* Storage.delete
delete(db, obj) ==
    CASE obj.kind = "rel" ->
            IF ~has_start_clause(obj.start) \/ ~has_start_clause(obj.end)
            THEN Res(db, "TypeError", None, << >>)
            ELSE IF ~start_index_exists(db, obj.start) \/ ~start_index_exists(db, obj.end)
            THEN Res(db, "DriverError", None, <<"delete">>)
            ELSE delete_relationships(db, start_hits(db, obj.start), start_hits(db, obj.end))
      [] obj.kind = "class" ->
            IF ~start_index_exists(db, obj)
            THEN Res(db, "DriverError", None, <<"delete">>)
            ELSE delete_class(db, declaring(db, start_hits(db, obj)))
      [] OTHER ->
            IF ~has_start_clause(obj) THEN Res(db, "TypeError", None, << >>)
            ELSE IF ~start_index_exists(db, obj)
            THEN Res(db, "DriverError", None, <<"delete">>)
            ELSE delete_nodes(db, related(db, start_hits(db, obj)), {})

\* ----------------------------------------------------------------- inputs
\* The objects the operations are called with.
NewP(id, code, name) == Instance("P", ("id" :> id) @@ ("code" :> code) @@ ("name" :> name))
NewQ(id) == Instance("Q", ("id" :> id))
NewR(id) == Instance("R", ("id" :> id))
NewS(name) == Instance("S", ("name" :> name))

PInputs == {NewP("x", "c", "a"), NewP("x", "c", "b"), NewP("x", "d", "a"),
            NewP("y", "d", "a"), NewP("x", "c", NULL)}
InstanceInputs == PInputs \cup {NewQ("x"), NewS("a")}
ClassInputs == {ClassObj("P"), ClassObj("Q")}
RelInputs == {Rel("Knows", NewQ("x"), NewQ("x"))}
SaveInputs == InstanceInputs \cup ClassInputs \cup RelInputs
DeleteInputs == {NewP("x", "c", "a"), ClassObj("P")} \cup RelInputs
GetInputs == {<<"P", ("id" :> "x")>>, <<"Q", ("id" :> "x")>>, <<"P", EmptyDict>>,
              <<"PersistableMeta", ("id" :> "P")>>, <<"Knows", ("id" :> "x")>>}

\* ------------------------------------------------------------------ state
VARIABLES
    db,     \* the graph database: [nodes, edges, nidx, indexes, nextId]
    last,   \* the last call and how it ended
    pc,     \* per Storage: where its save stands between two driver calls
    loc,    \* per Storage: the locals of its save
    typed   \* the classes an _add_types call has completed for

vars == <<db, last, pc, loc, typed>>

Storages == {1, 2}

Call(op, obj, r) ==
    [op |-> op, obj |-> obj, err |-> r.err, ret |-> r.ret, log |-> r.log, set |-> r.set]

NoCall == [op |-> "none", obj |-> None, err |-> "ok", ret |-> None,
           log |-> << >>, set |-> {}]

NoLocals == [obj |-> None, existing |-> None, row |-> EmptyDict, id |-> 0, calls |-> 0,
             types_raced |-> FALSE, insert_raced |-> FALSE]

Idle ==
    /\ pc = [s \in Storages |-> "idle"]
    /\ loc = [s \in Storages |-> NoLocals]
    /\ typed = {}

Init ==
    /\ db = EmptyDb
    /\ last = NoCall
    /\ Idle

\* the driver's ids stay within the bound of the model
InBound(d) == d.nextId <= MaxId + 1

\* a call has run to its end with the result r
Returns(op, obj, r) ==
    /\ InBound(r.db)
    /\ db' = r.db
    /\ last' = Call(op, obj, r)

\* One Storage, one call at a time: every call runs to its end.
Initialize ==
    /\ Returns("initialize", type_system, initialize(db))
    /\ UNCHANGED <<pc, loc, typed>>

Save(obj) ==
    /\ Returns("save", obj, save(db, obj))
    /\ UNCHANGED <<pc, loc, typed>>

Get(cls, index_filter) ==
    /\ Returns("get", [kind |-> "query", cls |-> cls, filter |-> index_filter],
               get(db, cls, index_filter))
    /\ UNCHANGED <<pc, loc, typed>>

Delete(obj) ==
    /\ Returns("delete", obj, delete(db, obj))
    /\ UNCHANGED <<pc, loc, typed>>

Next ==
    \/ Initialize
    \/ \E obj \in SaveInputs : Save(obj)
    \/ \E q \in GetInputs : Get(q[1], q[2])
    \/ \E obj \in DeleteInputs : Delete(obj)

Spec == Init /\ [][Next]_vars

\* ---------------------------------------- two Storages on one database
\* Each Storage runs save as the sequence of its driver calls; a driver call
\* (one Cypher query, one index operation) is one step, and the steps of the
\* two Storages interleave freely.  The database has been initialized once.
ConcInputs == {NewP("x", "c", "a"), NewP("x", "c", "b"), NewQ("x"), ClassObj("P")}

Other(s) == CHOOSE t \in Storages : t # s

\* the class _add_types is called with by the save of obj
types_of(obj) == IF obj.kind = "class" THEN obj.cls ELSE type(obj)

InitConc ==
    /\ db = initialize(EmptyDb).db
    /\ last = NoCall
    /\ Idle

\* where save goes on after its lookup returned g
after_get(g, obj) ==
    IF g.err # "ok" THEN "idle"
    ELSE IF g.ret = None THEN "add"
    ELSE IF object_to_dict(g.ret) = object_to_dict(obj) THEN "idle"
    ELSE "found"

Looked(s, obj, g) ==
    /\ db' = g.db
    /\ loc' = [loc EXCEPT ![s] = [NoLocals EXCEPT !.obj = obj, !.existing = g.ret,
                                                  !.calls = loc[s].calls + 1]]
    /\ pc' = [pc EXCEPT ![s] = after_get(g, obj)]
    /\ UNCHANGED <<last, typed>>

\* save, line 493: the lookup; an existing object ends the call unless it
\* differs
SaveGet(s, obj) ==
    /\ pc[s] = "idle"
    /\ loc[s].calls < MaxSaves
    /\ Looked(s, obj, get(db, type(obj), get_index_filter(obj)))

\* save, lines 498-522, for the object the lookup found
SaveExisting(s) ==
    /\ pc[s] = "found"
    /\ db' = save_existing(db, loc[s].existing, loc[s].obj).db
    /\ pc' = [pc EXCEPT ![s] = "idle"]
    /\ UNCHANGED <<last, loc, typed>>

\* the other Storage is inside a call for the same object, in one of `at`
Racing(s, at) ==
    /\ pc[Other(s)] \in at
    /\ loc[Other(s)].obj = loc[s].obj

TypesCreated(s, r) ==
    /\ InBound(r.db)
    /\ db' = r.db
    /\ pc' = [pc EXCEPT ![s] = IF r.rows = << >> THEN "idle" ELSE "typed"]
    /\ loc' = [loc EXCEPT ![s].row = IF r.rows = << >> THEN EmptyDict ELSE r.rows[1],
                          ![s].types_raced = r.rows # << >> /\ Racing(s, {"typed"})]
    /\ UNCHANGED <<last, typed>>

\* _add_types, lines 417-421: the CREATE UNIQUE query
AddTypesQuery(s) ==
    /\ pc[s] = "add"
    /\ TypesCreated(s, add_types_query(db, types_of(loc[s].obj)))

TypesIndexed(s, objects) ==
    db' = add_types_index_objects(add_types_indexes(db, objects), objects, loc[s].row)

\* _add_types, lines 423-431: the indexes and the index entries of the types
AddTypesIndex(s) ==
    /\ pc[s] = "typed"
    /\ TypesIndexed(s, CreateTypesQuery[types_of(loc[s].obj)].objects)
    /\ typed' = typed \cup {types_of(loc[s].obj)}
    /\ pc' = [pc EXCEPT ![s] = IF loc[s].obj.kind = "class" THEN "idle" ELSE "insert"]
    /\ UNCHANGED <<last, loc>>

Inserted(s, r) ==
    /\ InBound(r.db)
    /\ db' = r.db
    /\ pc' = [pc EXCEPT ![s] = IF r.rows = << >> THEN "idle" ELSE "inserted"]
    /\ loc' = [loc EXCEPT ![s].id = IF r.rows = << >> THEN 0 ELSE r.rows[1],
                          ![s].insert_raced =
                              r.rows # << >> /\ Racing(s, {"add", "typed", "insert"})]
    /\ UNCHANGED <<last, typed>>

\* _add, lines 449-481: the CREATE query of the instance
Insert(s) ==
    /\ pc[s] = "insert"
    /\ Inserted(s, exec_create_instances(db, class_hits(db, type(loc[s].obj)),
                                         object_to_dict(loc[s].obj),
                                         rel_props("InstanceOf")))

\* _add, line 482: _index_object of the new node
IndexObject(s) ==
    /\ pc[s] = "inserted"
    /\ db' = index_object(db, loc[s].obj, loc[s].id)
    /\ pc' = [pc EXCEPT ![s] = "idle"]
    /\ UNCHANGED <<last, loc, typed>>

NextConc ==
    \E s \in Storages :
        \/ \E obj \in ConcInputs : SaveGet(s, obj)
        \/ SaveExisting(s)
        \/ AddTypesQuery(s)
        \/ AddTypesIndex(s)
        \/ Insert(s)
        \/ IndexObject(s)

SpecConc == InitConc /\ [][NextConc]_vars

\* ------------------------------------------------------------------ claims
SameGraph(d1, d2) == d1.nodes = d2.nodes /\ d1.edges = d2.edges

\* initialize has run: the TypeSystem index exists and holds a root node
Initialized(d) ==
    /\ get_index_name("TypeSystem") \in d.indexes
    /\ index_hits(d, get_index_name("TypeSystem"), "id", type_system.attrs["id"]) # {}

Count(seq, x) == Cardinality({i \in DOMAIN seq : seq[i] = x})

\* the nodes that stand for instances: neither class nodes nor attribute nodes
AttributeKinds == {"String", "Uuid"}
InstanceNodes(d) ==
    {n \in d.nodes : "__type__" \in DOMAIN n.props
                     /\ n.props["__type__"] \notin AttributeKinds \cup {"PersistableMeta"}}

\* C1: on an initialized store, after a successful save(obj) of an object with
\* a unique key, get(type(obj), **unique_keys(obj)) returns an object whose
\* object_to_dict equals object_to_dict(obj), for every registered type.
C1_SaveThenGet ==
    (/\ last.op = "save"
     /\ last.err = "ok"
     /\ Initialized(db)
     /\ DOMAIN get_index_filter(last.obj) # {})
    => LET g == get(db, type(last.obj), get_index_filter(last.obj))
       IN /\ g.err = "ok"
          /\ g.ret # None
          /\ object_to_dict(g.ret) = object_to_dict(last.obj)

\* C2: save is idempotent: once save(obj) (or initialize, the save of the
\* TypeSystem root) has succeeded, saving the same object again leaves the
\* nodes and edges as they are, and no instance node has two INSTANCEOF edges.
C2_SaveIdempotent ==
    /\ (last.op \in {"save", "initialize"} /\ last.err = "ok")
          => SameGraph(save(db, last.obj).db, db)
    /\ \A n \in InstanceNodes(db) :
          Cardinality({e \in db.edges : e.typ = "INSTANCEOF" /\ e.src = n.id}) <= 1

\* C3: once initialize has run, whatever the number of calls, the graph holds
\* exactly one TypeSystem root node.
RootNodes(d) ==
    {n \in d.nodes : /\ DOMAIN n.props = {"__type__", "id"}
                     /\ n.props["__type__"] = "TypeSystem"
                     /\ n.props["id"] = "TypeSystem"}

C3_OneRoot ==
    get_index_name("TypeSystem") \in db.indexes => Cardinality(RootNodes(db)) = 1

\* the names of the unique and of the other attributes of a class
UniqueNames(c) ==
    {Descriptor[c].attributes[i].name :
        i \in {j \in DOMAIN Descriptor[c].attributes : Descriptor[c].attributes[j].unique}}
NonUniqueNames(c) ==
    {Descriptor[c].attributes[i].name :
        i \in {j \in DOMAIN Descriptor[c].attributes : ~Descriptor[c].attributes[j].unique}}

\* every property outside `keys` is the same in p and q
SameOutside(p, q, keys) ==
    \A k \in (DOMAIN p \cup DOMAIN q) \ keys :
        k \in DOMAIN p /\ k \in DOMAIN q /\ p[k] = q[k]

\* C4: when save(p) finds a stored object: equal dicts send no update and
\* leave the graph as it is; dicts that differ only in non-unique attributes
\* send exactly one update whose SET list is the keys of get_changes, and no
\* other property of any node changes.
C4_UpdateOnlyChanges ==
    [][last'.op = "save" =>
        \A g \in {get(db, type(last'.obj), get_index_filter(last'.obj))} :
          (g.err = "ok" /\ g.ret # None) =>
            \A old \in {object_to_dict(g.ret)} : \A new \in {object_to_dict(last'.obj)} :
            \A changes \in {get_changes(old, new)} :
             /\ old = new => (Count(last'.log, "update") = 0 /\ SameGraph(db', db))
             /\ (old # new /\ DOMAIN changes \subseteq NonUniqueNames(type(last'.obj)))
                  => /\ Count(last'.log, "update") = 1
                     /\ last'.set = DOMAIN changes
                     /\ db'.edges = db.edges
                     /\ {n.id : n \in db'.nodes} = {n.id : n \in db.nodes}
                     /\ \A n \in db.nodes :
                           SameOutside(n.props, NodeOf(db', n.id).props, last'.set)
    ]_vars

\* an update of the one changed non-unique attribute has been sent
C4_Witness ==
    /\ last.op = "save"
    /\ last.err = "ok"
    /\ Count(last.log, "update") = 1
    /\ last.set = {"name"}

\* C5 as stated: the store holds one node of the object's class and the object
\* differs from it in a unique attribute; save fails with the refusal of a
\* unique-attribute change, sends no update, inserts nothing.
C5_AsStated ==
    [][(/\ last'.op = "save"
        /\ last'.obj.kind = "inst"
        /\ Initialized(db)
        /\ LET same == {n \in InstanceNodes(db) : n.props["__type__"] = last'.obj.cls}
           IN /\ Cardinality(same) = 1
              /\ \E n \in same : \E u \in UniqueNames(last'.obj.cls) :
                    u \notin DOMAIN n.props \/ n.props[u] # last'.obj.attrs[u])
       => /\ last'.err = "NotImplementedError"
          /\ Count(last'.log, "update") = 0
          /\ SameGraph(db', db)
    ]_vars

\* C5, amended: when the lookup of save finds a stored object and a unique
\* attribute of that object is among the changes, save fails with the refusal
\* (NotImplementedError), sends no update, inserts nothing and leaves the
\* graph as it is.
C5_UniqueChangeRefused ==
    [][last'.op = "save" =>
        \A g \in {get(db, type(last'.obj), get_index_filter(last'.obj))} :
          (g.err = "ok" /\ g.ret # None) =>
            \A changes \in {get_changes(object_to_dict(g.ret), object_to_dict(last'.obj))} :
              (\E u \in UniqueNames(type(g.ret)) : u \in DOMAIN changes)
                 => /\ last'.err = "NotImplementedError"
                    /\ Count(last'.log, "update") = 0
                    /\ SameGraph(db', db)
    ]_vars

\* a save has been refused because a unique attribute changed
C5_Witness ==
    /\ last.op = "save"
    /\ last.err = "NotImplementedError"
    /\ last.obj = NewP("x", "d", "a")

\* C6: get returns None on an empty filter without any driver call and when
\* no node matches; the conversion of the match when all rows are one node;
\* and raises UniqueConstraintError when the rows hold two distinct node ids.
C6_GetContract ==
    last.op = "get" =>
        LET q == last.obj
            rows == lookup_rows(db, q.cls, q.filter)
        IN /\ DOMAIN q.filter = {}
                => (last.err = "ok" /\ last.ret = None /\ last.log = << >>)
           /\ (DOMAIN q.filter # {} /\ last.err # "DriverError") =>
                /\ rows = {} => (last.err = "ok" /\ last.ret = None)
                /\ Cardinality(rows) = 1 =>
                      /\ last.err = "ok"
                      /\ \E n \in db.nodes : n.id \in rows /\ last.ret = dict_to_object(n.props)
                /\ Cardinality(rows) > 1 => last.err = "UniqueConstraintError"

\* a get whose rows held two distinct nodes has raised
C6_Witness ==
    /\ last.op = "get"
    /\ last.err = "UniqueConstraintError"
    /\ Cardinality(lookup_rows(db, last.obj.cls, last.obj.filter)) > 1

\* C7: when the two Storages have saved the same object at the same time, both
\* lookups having found nothing and both inserts having succeeded, the next get
\* for its unique key raises UniqueConstraintError.
C7_RaceSeenByGet ==
    (/\ \A s \in Storages : pc[s] = "idle" /\ loc[s].id # 0
     /\ loc[1].obj = loc[2].obj
     /\ \E s \in Storages : loc[s].insert_raced)
    => get(db, type(loc[1].obj), get_index_filter(loc[1].obj)).err = "UniqueConstraintError"

\* the type graph without the driver's ids: class and attribute nodes, the
\* edges between them and from the root, and the index entries of the nodes
TypeNodes(d) == d.nodes \ InstanceNodes(d)
TypeEdges(d) == {e \in d.edges : e.typ \in {"ISA", "DEFINES", "DECLAREDON"}}
NodeKey(d, id) ==
    [props |-> NodeOf(d, id).props,
     out |-> {<<e.typ, NodeOf(d, e.dst).props>> : e \in {f \in TypeEdges(d) : f.src = id}}]
TypeEntries(d) == {t \in d.nidx : t[4] \in {n.id : n \in TypeNodes(d)}}
TypeShape(d) ==
    [nodes |-> {NodeKey(d, n.id) : n \in TypeNodes(d)},
     node_count |-> Cardinality(TypeNodes(d)),
     edges |-> {<<NodeKey(d, e.src), e.typ, e.props, NodeKey(d, e.dst)>> : e \in TypeEdges(d)},
     edge_count |-> Cardinality(TypeEdges(d)),
     entries |-> {<<t[1], t[2], t[3], NodeKey(d, t[4])>> : t \in TypeEntries(d)},
     entry_count |-> Cardinality(TypeEntries(d))]

RECURSIVE add_types_of_all(_, _)
\* one _add_types call for each class of T, one after the other
add_types_of_all(d, T) ==
    IF T = {} THEN d
    ELSE LET c == CHOOSE x \in T : TRUE
         IN add_types_of_all(add_types(d, c).db, T \ {c})

\* what single _add_types calls leave on the initialized database
SingleCallShape ==
    [T \in SUBSET {types_of(obj) : obj \in ConcInputs} |->
        TypeShape(add_types_of_all(initialize(EmptyDb).db, T))]

\* C8: whatever the interleaving of the _add_types calls of the two Storages,
\* once no call stands between its query and its index entries the graph holds
\* the type nodes, attribute nodes, ISA/DEFINES/DECLAREDON edges and index
\* entries that one _add_types call per class leaves, and no more.
C8_AddTypesConverge ==
    (\A s \in Storages : pc[s] # "typed") => TypeShape(db) = SingleCallShape[typed]

\* both Storages have run _add_types for the same class at the same time
C8_Witness ==
    /\ \A s \in Storages : pc[s] = "idle"
    /\ \E s \in Storages : loc[s].types_raced /\ types_of(loc[s].obj) \in typed
    /\ loc[1].obj = ClassObj("P")
    /\ loc[2].obj = ClassObj("P")

\* C9: every instance node, the TypeSystem root included, has exactly one
\* outgoing INSTANCEOF edge, and it points to the node of its type.
C9_OneInstanceOf ==
    \A n \in InstanceNodes(db) :
        LET out == {e \in db.edges : e.typ = "INSTANCEOF" /\ e.src = n.id}
        IN /\ Cardinality(out) = 1
           /\ \A e \in out : \E t \in db.nodes :
                 t.id = e.dst /\ t.props = object_to_dict(ClassObj(n.props["__type__"]))

\* C10: with one initialize and then saves and deletes of one Storage, no two
\* nodes of user types carry the same unique (index_name, key, value) triple
\* and no index of a declaring type holds two entries for one triple.
UniqueTriples(n) == Range(get_indexes(dict_to_object(n.props)))

C10_UniqueTriples ==
    Cardinality(RootNodes(db)) = 1 =>
        /\ \A n, m \in InstanceNodes(db) \ RootNodes(db) :
              n.id # m.id => UniqueTriples(n) \cap UniqueTriples(m) = {}
        /\ \A e1, e2 \in db.nidx :
              (/\ e1[1] \notin {"PersistableMeta", "TypeSystem"}
               /\ e1[1] = e2[1] /\ e1[2] = e2[2] /\ e1[3] = e2[3]) => e1[4] = e2[4]

\* the types a save of obj involves: the class itself, the type of an instance
\* with the stored classes above it, TypeSystem for the root
involved_types(obj) ==
    CASE obj.kind = "class" -> {obj.cls}
      [] obj.kind = "root" -> {"TypeSystem"}
      [] OTHER -> ancestors(obj.cls) \cap StoredClasses

\* the attribute nodes called a that a DECLAREDON edge ties to a node of T
DeclaredNodes(d, T, a) ==
    {n \in d.nodes :
        /\ PropsMatch(n.props, ("name" :> a))
        /\ n.props["__type__"] \in AttributeKinds
        /\ \E e \in d.edges :
              /\ e.typ = "DECLAREDON"
              /\ e.src = n.id
              /\ \E t \in d.nodes :
                    t.id = e.dst /\ t.props = object_to_dict(ClassObj(T))}

\* C11: after a successful save or initialize, every type the call involves
\* (the saved class, the type of the saved instance and its superclasses,
\* TypeSystem for initialize) has, for each attribute it declares, exactly one
\* attribute node of that name tied to its type node by a DECLAREDON edge.
C11_OneAttributeNode ==
    (last.op \in {"save", "initialize"} /\ last.err = "ok") =>
        \A T \in involved_types(last.obj) :
            \A a \in Range(declared_attributes(T)) :
                Cardinality(DeclaredNodes(db, T, a)) = 1

\* ------------------------------------- class hierarchies on one database
\* One Storage on an initialized database saves class objects, among them M,
\* a class with the two bases Q and S.
TypeInputs == {ClassObj("P"), ClassObj("Q"), ClassObj("S"), ClassObj("M"), ClassObj("Knows")}
\* objects that are not instances of Persistable: object() and the class object
NonPersistables == {PlainObject, ClassObj("object")}

InitTypes ==
    /\ db = initialize(EmptyDb).db
    /\ last = NoCall
    /\ Idle

Returned(op, obj, r) ==
    /\ db' = r.db
    /\ last' = Call(op, obj, r)

SaveType(obj) ==
    /\ Returned("save", obj, save(db, obj))
    /\ UNCHANGED <<pc, loc, typed>>

NextTypes == \E obj \in TypeInputs \cup NonPersistables : SaveType(obj)

SpecTypes == InitTypes /\ [][NextTypes]_vars

\* C12: every node and every edge of the graph carries a __type__ property,
\* that of an edge naming the relationship class its type is the upper case
\* of; every class node carries the id of a class, and the node indexed for a
\* class object carries that object's dictionary (__type__ and id).
C12_TypedNodes ==
    /\ \A n \in db.nodes :
          /\ "__type__" \in DOMAIN n.props
          /\ n.props["__type__"] = "PersistableMeta" =>
                "id" \in DOMAIN n.props /\ n.props["id"] \in PyTypes
    /\ \A e \in db.edges :
          "__type__" \in DOMAIN e.props /\ upper(e.props["__type__"]) = e.typ
    /\ \A t \in db.nidx :
          (t[1] = get_index_name("PersistableMeta") /\ t[4] \in NodeIds(db)) =>
              NodeOf(db, t[4]).props = object_to_dict(ClassObj(t[3]))

\* --------------------------------------------- the serialization functions
\* The pure functions of the serializer applied to inputs drawn from bounded
\* sets: `last` holds the input, then the call made on it and its result.
NewD(note, token) == Instance("D", ("note" :> note) @@ ("token" :> token))
NewFoobar(id) == Instance("Foobar", ("id" :> id))

ObjectInputs ==
    {ClassObj(c) : c \in {"Entity", "AttributedBase", "P", "M", "Foobar", "DynEntity", "Knows"}}
    \cup {NewP("x", "c", "a"), NewP("x", "c", NULL), NewQ("x"), NewS(NULL),
          Instance("Entity", EmptyDict), NewFoobar("spam"),
          Instance("DynEntity", ("id" :> "spam"))}
    \cup {NewD(note, token) : note \in {"n", "x", NULL}, token \in {"UUID(u1)", NULL}}
    \cup {Instance("TypeSystem", ("id" :> "TypeSystem") @@ ("version" :> "UUID(u2)"))}
    \cup {AttributeObj("String", PyTrue), AttributeObj("Uuid", PyFalse)}
    \cup {Rel("Relationship", None, None), Rel("Knows", NewQ("x"), NewQ("x"))}

\* property dicts that do not come from object_to_dict
Properties(props) == [kind |-> "dict", props |-> props]
DictInputs ==
    {Properties(("__type__" :> "PersistableMeta") @@ ("id" :> "Nope")),
     Properties(("__type__" :> "Nope")),
     Properties(("id" :> "x"))}

\* the dicts of the keys a, b with the values 1, 2, each key present or not
MaxKeys == 2
ChangeKeys == {"a", "b", "c"}
Dicts == UNION {[K -> {"1", "2"}] : K \in {L \in SUBSET ChangeKeys : Cardinality(L) <= MaxKeys}}
DictPairs(old, new) == [kind |-> "dicts", old |-> old, new |-> new]
ChangeInputs == {DictPairs(old, new) : old \in Dicts, new \in Dicts}

DynamicTypes == {"PersistableMeta", "DynamicType"}

\* the objects get_type_relationships is called with: every class and some
\* instances
Subject(x) == [kind |-> "subject", of |-> x]
StreamInputs ==
    {Subject(ClassObj(c)) : c \in PyTypes}
    \cup {Subject(NewQ("x")), Subject(Instance("Entity", EmptyDict)),
          Subject(Instance("M", ("id" :> "x") @@ ("name" :> "a")))}

Input(x) == [op |-> "input", obj |-> x, err |-> "ok", ret |-> None,
             log |-> << >>, set |-> {}]

InitPure ==
    /\ db = EmptyDb
    /\ last \in {Input(x) : x \in ObjectInputs \cup DictInputs \cup ChangeInputs
                                    \cup StreamInputs}
    /\ Idle

\* a function was applied to the input `obj` with the further arguments args
Applied(op, obj, args, ret) ==
    /\ last' = [op |-> op, obj |-> obj, err |-> "ok", ret |-> ret,
                log |-> args, set |-> {}]
    /\ UNCHANGED <<db, pc, loc, typed>>

IsObject(x) == x.kind \in {"class", "inst", "attr", "rel"}

ObjectToDict ==
    /\ last.op = "input"
    /\ IsObject(last.obj)
    /\ Applied("object_to_dict", last.obj, << >>, object_to_dict(last.obj))

DictToObject(dynamic_type) ==
    \/ /\ last.op = "object_to_dict"
       /\ Applied("dict_to_object", last.obj, <<dynamic_type>>,
                  dict_to_object_in(last.ret, dynamic_type))
    \/ /\ last.op = "input"
       /\ last.obj.kind = "dict"
       /\ Applied("dict_to_object", last.obj, <<dynamic_type>>,
                  dict_to_object_in(last.obj.props, dynamic_type))

GetChanges ==
    /\ last.op = "input"
    /\ last.obj.kind = "dicts"
    /\ Applied("get_changes", last.obj, << >>, get_changes(last.obj.old, last.obj.new))

SetProperties ==
    /\ last.op = "get_changes"
    /\ Applied("set", last.obj, <<last.ret>>, set_properties(last.obj.old, last.ret))

GetTypeRelationships ==
    /\ last.op = "input"
    /\ last.obj.kind = "subject"
    /\ Applied("get_type_relationships", last.obj.of, << >>,
               type_relationships_of(last.obj.of))

NextPure ==
    \/ ObjectToDict
    \/ GetTypeRelationships
    \/ \E dynamic_type \in DynamicTypes : DictToObject(dynamic_type)
    \/ GetChanges
    \/ SetProperties

SpecPure == InitPure /\ [][NextPure]_vars

\* the classes dict_to_object finds when it is given dynamic_type
Known(dynamic_type) ==
    Range(registry(dynamic_type))
    \cup {c \in Range(registry("PersistableMeta")) : c \notin DOMAIN registry(dynamic_type)}

\* the type-specific equality of an object and the one read back: the
\* identical class object for a class, else the same type and equal values of
\* every attribute of the object
SameObject(obj, back) ==
    IF obj.kind = "class" THEN back = obj
    ELSE /\ back.kind \in {"inst", "attr"}
         /\ back.cls = obj.cls
         /\ \A a \in DOMAIN obj.attrs :
               a \in DOMAIN back.attrs /\ back.attrs[a] = obj.attrs[a]

\* C13: for every persistable object obj whose class the registries given to
\* dict_to_object know, dict_to_object(object_to_dict(obj)) equals obj: the
\* identical class object for a class, an object of the same type with equal
\* attribute values for an instance, an attribute object or a relationship.
C13_RoundTrip ==
    (/\ last.op = "dict_to_object"
     /\ IsObject(last.obj)
     /\ last.obj.cls \in Known(last.log[1]))
    => SameObject(last.obj, last.ret)

\* the properties a dict_to_object call was given
dict_of(call) ==
    IF call.obj.kind = "dict" THEN call.obj.props ELSE object_to_dict(call.obj)

\* the cls_id the properties name: id on a class dict, else __type__
named_class(props) ==
    IF props["__type__"] = "PersistableMeta" THEN props["id"] ELSE props["__type__"]

Pos(S, t) == CHOOSE i \in DOMAIN S : S[i] = t

\* every triple of the stream `part` stands in S, and before the triple t
Before(S, part, t) ==
    \A u \in Range(part) : u \in Range(S) /\ Pos(S, u) < Pos(S, t)

\* the stream S of the class c is built as stated
ClassStream(S, c) ==
    /\ S[Len(S)] = <<c, "InstanceOf", metaclass(c)>>
    /\ metaclass(c) # "type" =>
          SubSeq(S, 1, Len(get_type_relationships(metaclass(c))))
              = get_type_relationships(metaclass(c))
    /\ \A i \in DOMAIN bases(c) :
          /\ <<c, "IsA", bases(c)[i]>> \in Range(S)
          /\ Before(S, get_type_relationships(bases(c)[i]), <<c, "IsA", bases(c)[i]>>)
          /\ \A j \in DOMAIN bases(c) :
                i < j => Pos(S, <<c, "IsA", bases(c)[i]>>) < Pos(S, <<c, "IsA", bases(c)[j]>>)
    /\ Range(S) =
          (IF metaclass(c) # "type" THEN Range(get_type_relationships(metaclass(c))) ELSE {})
          \cup UNION {Range(get_type_relationships(bases(c)[i])) : i \in DOMAIN bases(c)}
          \cup {<<c, "IsA", bases(c)[i]>> : i \in DOMAIN bases(c)}
          \cup {<<c, "InstanceOf", metaclass(c)>>}
    /\ \A A \in ancestors(c) \ {c} :
          \E i \in DOMAIN S : S[i][2] = "IsA" /\ S[i][3] = A

\* C15: get_type_relationships(obj) holds no triple twice; the stream of
\* type(obj) comes first (unless type(obj) is `type`), then for a class each
\* direct base in declaration order, the triples of the base before (obj,
\* IsA, base), and (obj, InstanceOf, type(obj)) is the last triple; there is
\* nothing else in it, and every ancestor of a class is the destination of an
\* IsA triple.
C15_StreamOrder ==
    last.op = "get_type_relationships" =>
        /\ \A i, j \in DOMAIN last.ret : last.ret[i] = last.ret[j] => i = j
        /\ IF last.obj.kind = "class" THEN ClassStream(last.ret, last.obj.cls)
           ELSE last.ret = get_type_relationships(type(last.obj))
                            \o << <<"<obj>", "InstanceOf", type(last.obj)>> >>

\* the stream of M, a class with two bases, has been produced: the triples of
\* a shared ancestor are in it once, and M's first base comes first
C15_Witness ==
    /\ last.op = "get_type_relationships"
    /\ last.obj = ClassObj("M")
    /\ Pos(last.ret, <<"M", "IsA", "Q">>) < Pos(last.ret, <<"M", "IsA", "S">>)
    /\ Len(raw_type_relationships("M")) > Len(last.ret)

\* C16: for property dicts old and new, get_changes(old, new) holds exactly
\* the keys of new whose value differs from that in old (keys new in `new`
\* included), each with its new value, and the keys of old missing from new,
\* each with None; it is empty when old = new; and SET with these changes
\* (None removing the key) turns old into new.
C16_ChangesAlgebra ==
    /\ last.op = "get_changes" =>
          /\ DOMAIN last.ret =
                {k \in DOMAIN last.obj.new :
                    k \notin DOMAIN last.obj.old \/ last.obj.old[k] # last.obj.new[k]}
                \cup (DOMAIN last.obj.old \ DOMAIN last.obj.new)
          /\ \A k \in DOMAIN last.ret :
                last.ret[k] = IF k \in DOMAIN last.obj.new THEN last.obj.new[k] ELSE NULL
          /\ last.obj.old = last.obj.new => DOMAIN last.ret = {}
    /\ last.op = "set" => last.ret = last.obj.new

\* the changes between two dicts with a changed key, a new key and a key
\* that disappeared have been applied
C16_Witness ==
    /\ last.op = "set"
    /\ last.obj.old = ("a" :> "1") @@ ("b" :> "1")
    /\ last.obj.new = ("a" :> "2") @@ ("c" :> "1")
    /\ last.log = << ("a" :> "2") @@ ("b" :> NULL) @@ ("c" :> "1") >>
    /\ last.ret = last.obj.new

\* C17 as stated: the refusal is the exception CannotPersist
C17_AsStated ==
    [][(last'.op = "save" /\ last'.obj \in NonPersistables) =>
          /\ last'.err = "CannotPersist"
          /\ last'.log = << >>
          /\ db' = db]_vars

\* C17: save of an object that is not an instance of Persistable raises
\* TypeError before any driver call is made (no lookup, no query, no index
\* operation): nodes, edges, indexes and index entries stay as they were.
C17_RefusedBeforeDriver ==
    [][(last'.op = "save" /\ last'.obj \in NonPersistables) =>
          /\ last'.err = "TypeError"
          /\ last'.log = << >>
          /\ db' = db]_vars

\* save(object()) has been refused on a database that holds saved classes
C17_Witness ==
    /\ last.op = "save"
    /\ last.obj = PlainObject
    /\ last.err = "TypeError"
    /\ Cardinality(db.nodes) > 1

\* ------------------------------------------------- index lookups of objects
\* Storage.get_related_objects: START <index lookup of obj> MATCH
\* n -[:REL]-> related (Outgoing) or n <-[:REL]- related (Incoming) RETURN
\* related, every row converted to an object
related_nodes(d, rel_cls, ref_cls, hits) ==
    IF ref_cls = "Outgoing"
    THEN {e.dst : e \in {f \in d.edges : f.typ = upper(rel_cls) /\ f.src \in hits}}
    ELSE {e.src : e \in {f \in d.edges : f.typ = upper(rel_cls) /\ f.dst \in hits}}

converted(d, ids) == [i \in DOMAIN ids |-> dict_to_object(NodeOf(d, ids[i]).props)]

get_related_objects(d, rel_cls, ref_cls, obj) ==
    IF ~has_start_clause(obj) THEN Res(d, "TypeError", None, << >>)
    ELSE IF ~start_index_exists(d, obj) THEN Res(d, "DriverError", None, <<"related">>)
    ELSE Res(d, "ok",
             [kind |-> "objects",
              items |-> converted(d, SortedSeq(related_nodes(d, rel_cls, ref_cls,
                                                             start_hits(d, obj))))],
             <<"related">>)

\* One Storage on an initialized database: instances of P (two unique
\* attributes) and of S (none), relationships between them, their deletes and
\* traversals.
LookupInstances == {NewP("x", "c", "a"), NewP("y", "d", "a"), NewS("a")}
LookupRelationships ==
    {Rel("Knows", NewP("x", "c", "a"), NewP("y", "d", "a")),
     Rel("Knows", NewS("a"), NewP("x", "c", "a"))}
LookupSaveInputs == LookupInstances \cup LookupRelationships
\* P(id=x, code=d) carries the id of one stored object and the code of another
LookupDeleteInputs == {NewP("x", "d", "a"), NewS("a")} \cup LookupRelationships
RelatedInputs == {NewP("x", "d", "a"), NewS("a")}

GetRelatedObjects(rel_cls, ref_cls, obj) ==
    /\ Returns("get_related_objects",
               [kind |-> "traversal", rel_cls |-> rel_cls, ref_cls |-> ref_cls, of |-> obj],
               get_related_objects(db, rel_cls, ref_cls, obj))
    /\ UNCHANGED <<pc, loc, typed>>

NextLookup ==
    \/ \E obj \in LookupSaveInputs : Save(obj)
    \/ \E obj \in LookupDeleteInputs : Delete(obj)
    \/ \E ref_cls \in {"Outgoing", "Incoming"}, obj \in RelatedInputs :
          GetRelatedObjects("Knows", ref_cls, obj)

SpecLookup == InitTypes /\ [][NextLookup]_vars

\* the objects whose index lookup a call needs
looked_up(call) ==
    CASE call.op = "get_related_objects" -> {call.obj.of}
      [] call.op = "delete" /\ call.obj.kind = "rel" -> {call.obj.start, call.obj.end}
      [] call.op = "delete" -> {call.obj}
      [] OTHER -> {}

\* C18: a delete or a traversal whose object (for a relationship: one of its
\* endpoints) has no unique attribute raises NotIndexableError; when every
\* such object has one, a delete removes no node but those found through the
\* first unique index of the object.
C18_FirstIndexOrError ==
    [][/\ (\E o \in looked_up(last') : unique_attributes(Descriptor[type(o)].attributes) = << >>)
            => last'.err = "NotIndexableError"
       /\ (last'.op = "delete" /\ last'.obj.kind = "inst" /\ last'.err = "ok")
            => NodeIds(db) \ NodeIds(db') \subseteq hits_of(db, get_indexes(last'.obj)[1])
      ]_vars

\* ------------------------------------------- one save, driver call by call
\* One Storage saves classes and an instance; every driver call of save and
\* of _add_types is one step, so that the order in which the graph and the
\* indexes change can be seen.
RegisterClasses == {"P", "Q", "S", "D", "Knows"}
RegisterInputs == {ClassObj(c) : c \in RegisterClasses} \cup {NewQ("x")}

Registering(obj, g) ==
    /\ db' = g.db
    /\ loc' = [loc EXCEPT ![1] = [NoLocals EXCEPT !.obj = obj, !.existing = g.ret]]
    /\ pc' = [pc EXCEPT ![1] = IF after_get(g, obj) = "add" THEN "add" ELSE "idle"]
    /\ UNCHANGED <<last, typed>>

\* save, lines 493-503: the lookup; an object found unchanged ends the call
RegisterGet(obj) ==
    /\ pc[1] = "idle"
    /\ Registering(obj, get(db, type(obj), get_index_filter(obj)))

HierarchyCreated(r) ==
    /\ InBound(r.db)
    /\ db' = r.db
    /\ pc' = [pc EXCEPT ![1] = IF r.rows = << >> THEN "idle" ELSE "created"]
    /\ loc' = [loc EXCEPT ![1].row = IF r.rows = << >> THEN EmptyDict ELSE r.rows[1]]
    /\ UNCHANGED <<last, typed>>

\* _add_types, lines 418-421: the CREATE UNIQUE query of the hierarchy
RegisterHierarchy ==
    /\ pc[1] = "add"
    /\ HierarchyCreated(add_types_query(db, types_of(loc[1].obj)))

\* _add_types, lines 423-426: the index of every indexable class
RegisterIndexes ==
    /\ pc[1] = "created"
    /\ db' = add_types_indexes(db, CreateTypesQuery[types_of(loc[1].obj)].objects)
    /\ pc' = [pc EXCEPT ![1] = "indexes"]
    /\ UNCHANGED <<last, loc, typed>>

\* _add_types, lines 428-429: every returned node is put into its indexes
RegisterEntries ==
    /\ pc[1] = "indexes"
    /\ db' = add_types_index_objects(db, CreateTypesQuery[types_of(loc[1].obj)].objects,
                                     loc[1].row)
    /\ typed' = typed \cup {types_of(loc[1].obj)}
    /\ pc' = [pc EXCEPT ![1] = IF loc[1].obj.kind = "class" THEN "idle" ELSE "insert"]
    /\ UNCHANGED <<last, loc>>

NextRegister ==
    \/ \E obj \in RegisterInputs : RegisterGet(obj)
    \/ RegisterHierarchy
    \/ RegisterIndexes
    \/ RegisterEntries
    \/ Insert(1)
    \/ IndexObject(1)

SpecRegister == InitConc /\ [][NextRegister]_vars

\* the states of a class T in a database d
HierarchyOf(d, T) ==
    \E n \in d.nodes : /\ "__type__" \in DOMAIN n.props
                       /\ n.props["__type__"] = get_index_name(metaclass(T))
                       /\ n.props["id"] = T
IndexOf(d, T) == get_index_name(T) \in d.indexes
EntriesOf(d, T) == class_hits(d, T) # << >>

\* the state of T as a number: 0 UNREGISTERED, 1 the hierarchy is in the
\* graph, 2 the index of T has been made as well (at once for a T that is
\* not indexable), 3 the node of T is in the index of its metaclass
StateOf(d, T) ==
    IF ~HierarchyOf(d, T) THEN 0
    ELSE IF is_indexable(T) /\ ~IndexOf(d, T) THEN 1
    ELSE IF ~EntriesOf(d, T) THEN 2
    ELSE 3

\* a save of the class T finds T in its last state
SavesAllowed(T) ==
    /\ pc[1] = "idle"
    /\ loc'[1].obj = ClassObj(T)
    /\ EntriesOf(db, T)

\* C19 as stated: the index of T is there before the hierarchy of T is
\* created in the graph, the hierarchy before the node of T is added to
\* indexes, no class goes back, and a save of T in the last state changes
\* neither graph nor indexes.
C19_AsStated ==
    [][\A T \in RegisterClasses :
          /\ HierarchyOf(db', T) /\ is_indexable(T) => IndexOf(db', T)
          /\ EntriesOf(db', T) => HierarchyOf(db', T)
          /\ StateOf(db', T) >= StateOf(db, T)
          /\ SavesAllowed(T) => db' = db]_vars

\* C19 with the order of the code: the hierarchy of T is created in the
\* graph first, the index of T is made next, and only then is the node of T
\* added to indexes; T never goes back, and a save of T whose node is in the
\* index changes neither graph nor indexes.
C19_HierarchyThenIndex ==
    [][\A T \in RegisterClasses :
          /\ IndexOf(db', T) => HierarchyOf(db', T)
          /\ EntriesOf(db', T) => HierarchyOf(db', T) /\ (is_indexable(T) => IndexOf(db', T))
          /\ EntriesOf(db', T) /\ ~EntriesOf(db, T) => pc[1] = "indexes"
          /\ IndexOf(db', T) /\ ~IndexOf(db, T) => pc[1] = "created"
          /\ HierarchyOf(db', T) /\ ~HierarchyOf(db, T) => pc[1] = "add"
          /\ StateOf(db', T) >= StateOf(db, T)
          /\ SavesAllowed(T) => db' = db /\ pc'[1] = "idle"]_vars

\* the hierarchy of P is in the graph, the index of P is not made yet
C19_Witness ==
    /\ pc[1] = "created"
    /\ loc[1].obj = ClassObj("P")
    /\ StateOf(db, "P") = 1

\* the nodes that mirror the class T, and whether a type node is reached from
\* a TypeSystem root by one DEFINES edge and then ISA edges against their
\* direction: root -[:DEFINES]-> () <-[:ISA*0..]- n
MirrorsOf(d, T) ==
    {n \in d.nodes : /\ "__type__" \in DOMAIN n.props
                     /\ n.props["__type__"] = get_index_name(metaclass(T))
                     /\ "id" \in DOMAIN n.props
                     /\ n.props["id"] = T}
DefinedByRoot(d, id) ==
    \E de \in d.edges : /\ de.typ = "DEFINES"
                        /\ de.dst = id
                        /\ de.src \in {r.id : r \in RootNodes(d)}
ReachedFromRoot(d, id) ==
    \/ DefinedByRoot(d, id)
    \/ \E top \in isa_star(d, id) : DefinedByRoot(d, top)

\* --------------------------------------------------- saves on one database
\* One Storage and nothing but saves: initialize, which saves the TypeSystem
\* object of the Storage, and save.
NextSaves ==
    \/ Initialize
    \/ \E obj \in SaveInputs : Save(obj)

SpecSaves == Init /\ [][NextSaves]_vars

\* the first place of a driver call in the log of a call, 0 when not there
FirstCall(log, call) ==
    IF Count(log, call) = 0 THEN 0
    ELSE CHOOSE i \in DOMAIN log : log[i] = call /\ \A j \in DOMAIN log : log[j] = call => i <= j

\* C20: after any sequence of saves on an initialized store the class of the
\* instance (or the class) saved last is mirrored by exactly one type node,
\* which the TypeSystem root reaches by one DEFINES edge followed by zero or
\* more ISA edges; and a save that creates the node of an instance has
\* created the type hierarchy before.
C20_OneTypeNode ==
    (/\ Initialized(db)
     /\ last.op = "save"
     /\ last.err = "ok"
     /\ last.obj.kind \in {"class", "inst"}) =>
        /\ Cardinality(MirrorsOf(db, types_of(last.obj))) = 1
        /\ \A n \in MirrorsOf(db, types_of(last.obj)) : ReachedFromRoot(db, n.id)
        /\ Count(last.log, "create_instance") > 0 =>
              /\ Count(last.log, "create_types") > 0
              /\ FirstCall(last.log, "create_types") < FirstCall(last.log, "create_instance")

\* the nodes that stand for the saved instance obj: they carry its dictionary
\* and an INSTANCEOF edge
NodesOf(d, obj) ==
    {n.id : n \in {m \in d.nodes :
        /\ m.props = object_to_dict(obj)
        /\ \E e \in d.edges : e.typ = "INSTANCEOF" /\ e.src = m.id}}

\* the call that has just returned is a delete of an instance that is stored
DeletesSaved ==
    /\ last'.op = "delete"
    /\ last'.obj.kind = "inst"
    /\ NodesOf(db, last'.obj) # {}

RowsOfType(d, cls, rows) ==
    {id \in rows : \E n \in d.nodes :
        n.id = id /\ "__type__" \in DOMAIN n.props /\ n.props["__type__"] \in PyTypes
                  /\ issubclass(n.props["__type__"], cls)}

\* C22: for a class cls that is neither a relationship type nor a meta-type
\* get(cls, **filter) returns None or an object whose type is cls or a
\* subclass of cls, and raises UniqueConstraintError only when two distinct
\* nodes of such a type match: an instance of an unrelated type that holds
\* the same value under the same attribute name is neither returned nor
\* counted.
C22_GetOfType ==
    (/\ last.op = "get"
     /\ ~issubclass(last.obj.cls, "Relationship")
     /\ ~issubclass(last.obj.cls, "PersistableMeta")) =>
        /\ (last.err = "ok" /\ last.ret.kind # "None") =>
              issubclass(type(last.ret), last.obj.cls)
        /\ last.err = "UniqueConstraintError" =>
              Cardinality(RowsOfType(db, last.obj.cls,
                                     lookup_rows(db, last.obj.cls, last.obj.filter))) > 1

\* ------------------------------------- types that share a unique attribute
\* One Storage on an initialized database saves instances of P, Q and R,
\* which all declare the unique attribute id, and looks them up.
SharedInputs == {NewR("x"), NewR("y"), NewQ("x"), NewP("x", "c", "a"), NewS("a")}
SharedGets == {<<"R", ("id" :> "x")>>, <<"Q", ("id" :> "x")>>, <<"P", ("id" :> "x")>>}

NextShared ==
    \/ \E obj \in SharedInputs : Save(obj)
    \/ \E q \in SharedGets : Get(q[1], q[2])

SpecShared == InitTypes /\ [][NextShared]_vars

\* the __type__ of a stored node, NULL when it has none
TypeOf(n) == IF "__type__" \in DOMAIN n.props THEN n.props["__type__"] ELSE NULL

\* a node of the database d that stands for obj: it carries the dictionary
\* of obj and is an instance of a node that mirrors type(obj)
StoredAs(d, obj) ==
    \E n \in d.nodes :
        /\ n.props = object_to_dict(obj)
        /\ \E e \in d.edges : /\ e.typ = "INSTANCEOF"
                              /\ e.src = n.id
                              /\ e.dst \in {m.id : m \in MirrorsOf(d, type(obj))}

\* C23: the __type__ of a stored node never changes; save(obj) changes the
\* properties of no node that was created for an object of another type; and
\* a saved instance has a node of its own type, so that instances of two
\* types with the same value under the same unique attribute name are two
\* nodes.
C23_TypeKept ==
    [][/\ \A n \in db.nodes : \A m \in db'.nodes :
             m.id = n.id =>
                /\ TypeOf(m) = TypeOf(n)
                /\ (last'.op = "save" /\ m.props # n.props) =>
                      TypeOf(n) = type(last'.obj)
       /\ (last'.op = "save" /\ last'.err = "ok" /\ last'.obj.kind = "inst") =>
             StoredAs(db', last'.obj)]_vars

====
